---- MODULE Spec2Model ----
(***************************************************************************)
(* Model of scripts/advanced_attunement.js: the attunement weight of an    *)
(* item, the attunement burden of a player character, and the host hooks   *)
(* (updateItem, renderTidy5eSheet, renderItemSheet5e) that drive them.     *)
(*                                                                         *)
(* JavaScript values are records [t, v]; a number carries its value in     *)
(* tenths (v = 39 is 3.9), so that Math.floor is a real computation.       *)
(***************************************************************************)
EXTENDS Integers, Sequences, FiniteSets, TLC

\* Number of items the actor owns (ids 1..MaxItems).
MaxItems == 2
\* Number of item updates the host delivers in one behaviour.
MaxChanges == 2
\* Range of stored numbers, in tenths, used when probing getAttunementWeight.
MaxTenths == 40

\* Fixed-point denominator of the number representation.
Tenths == 10

\* AdvancedAttunementItemData.DEFAULT_WEIGHT
DEFAULT_WEIGHT == 1

\* item.system.attunement values tested by isAttunable / isAttuned.
RequiresAttunement == 1
Attuned == 2
NotAttunable == RequiresAttunement - 1

ItemIds == 1..MaxItems
Statuses == {NotAttunable, RequiresAttunement, Attuned}
ActorTypes == {"character", "npc"}

----------------------------------------------------------------------------
(* JavaScript values *)

Undefined == [t |-> "undefined", v |-> 0]
Null == [t |-> "null", v |-> 0]
NaN == [t |-> "NaN", v |-> 0]
\* A string that does not parse as a number.
Str == [t |-> "string", v |-> 0]
Num(x) == [t |-> "number", v |-> x]

\* ToNumber, as applied by Math.floor / Math.max to their arguments.
ToNumber(x) ==
    CASE x.t = "number" -> x
      [] x.t = "null" -> Num(0)
      [] OTHER -> NaN

MathFloor(x) ==
    LET n == ToNumber(x)
    IN  IF n.t = "NaN" THEN NaN ELSE Num((n.v \div Tenths) * Tenths)

\* Math.max(0, x)
MathMax0(x) ==
    LET n == ToNumber(x)
    IN  IF n.t = "NaN" THEN NaN ELSE IF n.v > 0 THEN n ELSE Num(0)

\* a + b on numbers
JsAdd(a, b) ==
    IF a.t = "NaN" \/ b.t = "NaN" THEN NaN ELSE Num(a.v + b.v)

\* a !== b
StrictNotEqual(a, b) ==
    IF a.t = "NaN" \/ b.t = "NaN" THEN TRUE ELSE a # b

----------------------------------------------------------------------------
(* State *)

VARIABLES
    status,      \* item id -> item.system.attunement
    weightFlag,  \* item id -> the item's attunement-weight flag
    actorType,   \* actor.type of the actor owning the items (item.parent)
    burdenFlag,  \* the player character's attunement-burden flag
    pending,     \* setFlag writes of the burden issued and not yet applied
    call,        \* the most recent updateItem hook invocation
    sheet,       \* what the most recent renderTidy5eSheet hook put on the sheet
    changes,     \* item updates delivered so far
    probe        \* one getAttunementWeight evaluation on a stored value

vars == <<status, weightFlag, actorType, burdenFlag, pending, call, sheet, changes, probe>>

----------------------------------------------------------------------------
(* class AdvancedAttunement *)

isPlayerCharacter(type) == type = "character"

\* Variant: an item that only requires attunement counts as attuned.
isAttunedOrRequired(attunement) == attunement >= RequiresAttunement

isAttuned(attunement) == attunement = Attuned

\* Variant: the isAttuned alternative is dropped.
isAttunableRequiredOnly(attunement) == attunement = RequiresAttunement

isAttunable(attunement) == attunement = RequiresAttunement \/ isAttuned(attunement)

----------------------------------------------------------------------------
(* class AdvancedAttunementItemData *)

sanitizeWeight(weight) ==
    IF weight = Undefined
    THEN Num(DEFAULT_WEIGHT * Tenths)
    ELSE MathMax0(MathFloor(weight))

\* flag: what item.getFlag(ID, ATTUNEMENT_WEIGHT) returns
getAttunementWeight(flag) == sanitizeWeight(flag)

----------------------------------------------------------------------------
(* class AdvancedAttunementActorData *)

getAttunementBurden(flag) == flag

\* The value setAttunementBurden hands to setFlag.
setAttunementBurden(burden) == MathMax0(MathFloor(burden))

\* items.filter(isAttuned).map(getAttunementWeight).reduce((a, b) => a + b, 0),
\* folding from the left over the items k..MaxItems in collection order.
RECURSIVE ReduceWeights(_, _, _, _)
ReduceWeights(k, acc, st, wf) ==
    IF k > MaxItems THEN acc
    ELSE IF isAttuned(st[k])
         THEN ReduceWeights(k + 1, JsAdd(acc, getAttunementWeight(wf[k])), st, wf)
         ELSE ReduceWeights(k + 1, acc, st, wf)

\* Variant: a loose comparison of the numeric values, an unset flag reading as 0.
BurdenChangedLoose(newBurden, currentBurden) == newBurden.v # currentBurden.v

\* The change gate: newBurden !== currentBurden
BurdenChanged(newBurden, currentBurden) == StrictNotEqual(newBurden, currentBurden)

\* One call: the burden read, the sum, whether setFlag is called and with what.
updateAttunementBurden(st, wf, flag) ==
    LET currentBurden == getAttunementBurden(flag)
        newBurden == ReduceWeights(1, Num(0), st, wf)
        write == BurdenChanged(newBurden, currentBurden)
    IN  [old |-> currentBurden,
         new |-> newBurden,
         write |-> write,
         value |-> IF write THEN setAttunementBurden(newBurden) ELSE Undefined,
         log |-> IF write THEN <<currentBurden, newBurden>> ELSE <<>>]

\* getItem(itemId): TRUE when an AdvancedAttunementItemData is returned, FALSE for null
getItem(itemId, st) == itemId \in DOMAIN st /\ isAttunable(st[itemId])

----------------------------------------------------------------------------
(* Hooks *)

NoCall ==
    [kind |-> "none", item |-> 0, wasAttunable |-> FALSE, ran |-> FALSE,
     wrote |-> FALSE, old |-> Undefined, new |-> Undefined, log |-> <<>>,
     inflight |-> 0, stale |-> FALSE, run |-> 0, prevWrote |-> FALSE]

NoSheet == [rendered |-> FALSE, burden |-> Undefined, asked |-> {}, found |-> <<>>, weights |-> <<>>]

NoProbe == [stored |-> Undefined, weight |-> Undefined, done |-> FALSE]

\* Variant: the handler reacts to attunement changes only.
ShouldUpdateBurdenOnStatus(kind, attunement, type) ==
    kind = "status" /\ isAttunable(attunement) /\ isPlayerCharacter(type)

\* The guard of the updateItem handler; the handler ignores what was updated.
ShouldUpdateBurden(kind, attunement, type) ==
    isAttunable(attunement) /\ isPlayerCharacter(type)

\* Hooks.on('updateItem'), run by the host right after it applied an update of
\* the given kind to item i (status' and weightFlag' hold the updated item).
updateItemHook(i, kind) ==
    LET ran == ShouldUpdateBurden(kind, status'[i], actorType)
        r == updateAttunementBurden(status', weightFlag', burdenFlag)
        wrote == ran /\ r.write
        again == ran /\ kind = "other" /\ call.run >= 1
    IN  /\ pending' = IF wrote THEN Append(pending, r.value) ELSE pending
        /\ call' = [kind |-> kind,
                    item |-> i,
                    wasAttunable |-> isAttunable(status[i]),
                    ran |-> ran,
                    wrote |-> wrote,
                    old |-> IF ran THEN r.old ELSE Undefined,
                    new |-> IF ran THEN r.new ELSE Undefined,
                    log |-> IF ran THEN r.log ELSE <<>>,
                    inflight |-> Len(pending),
                    stale |-> ran /\ \E k \in 1..Len(pending) : pending[k] # burdenFlag,
                    run |-> IF again THEN 2 ELSE IF ran THEN 1 ELSE 0,
                    prevWrote |-> again /\ call.wrote]
        /\ changes' = changes + 1
        /\ sheet' = NoSheet
        /\ UNCHANGED <<actorType, burdenFlag, probe>>

\* Values the item sheet's number input (renderItemSheet5e) submits: empty, -2.7, 3.9
FormWeights == {Null, Num(-27), Num(39)}

\* The item's attunement is changed (attune, unattune, make (not) attunable).
ChangeAttunement(i, s) ==
    /\ changes < MaxChanges
    /\ s # status[i]
    /\ status' = [status EXCEPT ![i] = s]
    /\ UNCHANGED weightFlag
    /\ updateItemHook(i, "status")

\* The weight field injected by renderItemSheet5e is edited and the sheet's form
\* submitted: the host updates flags.advanced-attunement.attunement-weight.
EditWeight(i, w) ==
    /\ changes < MaxChanges
    /\ w # weightFlag[i]
    /\ weightFlag' = [weightFlag EXCEPT ![i] = w]
    /\ UNCHANGED status
    /\ updateItemHook(i, "weight")

\* Any other field of the item (name, quantity, ...) is updated.
EditOther(i) ==
    /\ changes < MaxChanges
    /\ UNCHANGED <<status, weightFlag>>
    /\ updateItemHook(i, "other")

\* Variant: applying the write triggers the handler again, which writes again.
SetFlagResolvesRequeued ==
    /\ pending # <<>>
    /\ burdenFlag' = Head(pending)
    /\ pending' = Append(Tail(pending), Head(pending))
    /\ sheet' = NoSheet
    /\ UNCHANGED <<status, weightFlag, actorType, call, changes, probe>>

\* The host applies the oldest setFlag write of the burden (its promise resolves).
SetFlagResolves ==
    /\ pending # <<>>
    /\ burdenFlag' = Head(pending)
    /\ pending' = Tail(pending)
    /\ sheet' = NoSheet
    /\ UNCHANGED <<status, weightFlag, actorType, call, changes, probe>>

\* The data-item-id attributes on a rendered sheet: the actor's items and one
\* id that is not among them.
SheetIds == ItemIds \cup {MaxItems + 1}

\* What the render hook inserts before the attunement icon of item id: the
\* weight when getItem returns item data and the weight is truthy, else nothing.
ShownWeight(id, st, wf) ==
    IF getItem(id, st)
    THEN LET w == getAttunementWeight(wf[id])
         IN  IF w.t = "number" /\ w.v # 0 THEN w ELSE Undefined
    ELSE Undefined

\* Variant: the render hook shows a freshly computed sum instead of the flag.
renderTidy5eSheetRecomputed(ids) ==
    /\ sheet' = [rendered |-> TRUE,
                 burden |-> ReduceWeights(1, Num(0), status, weightFlag),
                 asked |-> ids,
                 found |-> [id \in ids |-> getItem(id, status)],
                 weights |-> [id \in ids |-> ShownWeight(id, status, weightFlag)]]
    /\ UNCHANGED <<status, weightFlag, actorType, burdenFlag, pending, call, changes, probe>>

\* Hooks.on('renderTidy5eSheet') on a sheet showing attunement icons for ids.
renderTidy5eSheet(ids) ==
    /\ sheet' = [rendered |-> TRUE,
                 burden |-> getAttunementBurden(burdenFlag),
                 asked |-> ids,
                 found |-> [id \in ids |-> getItem(id, status)],
                 weights |-> [id \in ids |-> ShownWeight(id, status, weightFlag)]]
    /\ UNCHANGED <<status, weightFlag, actorType, burdenFlag, pending, call, changes, probe>>

----------------------------------------------------------------------------
(* Specifications *)

\* The module was just installed: no flag of either kind is stored yet.
Init ==
    /\ status \in [ItemIds -> Statuses]
    /\ actorType \in ActorTypes
    /\ weightFlag = [i \in ItemIds |-> Undefined]
    /\ burdenFlag = Undefined
    /\ pending = <<>>
    /\ call = NoCall
    /\ sheet = NoSheet
    /\ changes = 0
    /\ probe = NoProbe

Next ==
    \/ \E i \in ItemIds, s \in Statuses : ChangeAttunement(i, s)
    \/ \E i \in ItemIds, w \in FormWeights : EditWeight(i, w)
    \/ \E i \in ItemIds : EditOther(i)
    \/ SetFlagResolves
    \/ renderTidy5eSheet(SheetIds)

Spec == Init /\ [][Next]_vars

\* The host resolves every setFlag promise eventually.
FairSpec == Spec /\ WF_vars(SetFlagResolves)

\* getAttunementWeight as a function of the stored flag value alone.
StoredValues ==
    {Undefined, Null, NaN, Str} \cup {Num(x) : x \in (0 - MaxTenths)..MaxTenths}

InitWeight ==
    /\ status = [i \in ItemIds |-> NotAttunable]
    /\ actorType = "character"
    /\ weightFlag = [i \in ItemIds |-> Undefined]
    /\ burdenFlag = Undefined
    /\ pending = <<>>
    /\ call = NoCall
    /\ sheet = NoSheet
    /\ changes = 0
    /\ probe \in [stored : StoredValues, weight : {Undefined}, done : {FALSE}]

ReadWeight ==
    /\ ~probe.done
    /\ probe' = [probe EXCEPT !.weight = getAttunementWeight(probe.stored), !.done = TRUE]
    /\ UNCHANGED <<status, weightFlag, actorType, burdenFlag, pending, call, sheet, changes>>

NextWeight == ReadWeight

SpecWeight == InitWeight /\ [][NextWeight]_vars

----------------------------------------------------------------------------
(* Recomputing the burden *)

AttunedItems == {i \in ItemIds : status[i] = Attuned}

\* The weight item i counts for, in whole units: 1 when no flag is stored,
\* else the stored number rounded down and not below 0.
WeightUnits(i) ==
    LET f == weightFlag[i]
    IN  IF f.t = "undefined" THEN 1
        ELSE IF f.t = "number" /\ f.v > 0 THEN f.v \div Tenths
        ELSE 0

RECURSIVE SumOver(_)
SumOver(S) ==
    IF S = {} THEN 0
    ELSE LET i == CHOOSE x \in S : TRUE
         IN  WeightUnits(i) + SumOver(S \ {i})

AttunedWeightSum == Num(Tenths * SumOver(AttunedItems))

\* No setFlag write has been applied since the latest handler returned.
JustReturned == Len(pending) = call.inflight + (IF call.wrote THEN 1 ELSE 0)

\* C1: after updateAttunementBurden ran and its write, if any, has been
\* applied, the burden flag is the sum of the weights of exactly the attuned
\* items (1 for an item without a stored weight; 0 when none is attuned, also
\* when the flag was unset before). While the write is in flight it carries
\* that sum; a call that wrote nothing leaves the flag at that sum.
C1_BurdenIsAttunedSum ==
    call.ran =>
        /\ (call.wrote /\ pending = <<>>) => burdenFlag = AttunedWeightSum
        /\ (call.wrote /\ pending # <<>>) => pending[Len(pending)] = AttunedWeightSum
        /\ (~call.wrote /\ JustReturned) => burdenFlag = AttunedWeightSum

\* A call summed two attuned items, one of them without a stored weight, and
\* its write has been applied.
C1_Witness ==
    /\ call.ran /\ call.wrote /\ pending = <<>>
    /\ Cardinality(AttunedItems) >= 2
    /\ \E i \in AttunedItems : weightFlag[i] = Undefined
    /\ \E i \in AttunedItems : weightFlag[i] = Num(39)
    /\ burdenFlag = AttunedWeightSum

\* C2: whenever the attunement of a player character's item that was attunable
\* before the change is changed, then once the event has been handled and no
\* write is in flight the burden flag (set by an earlier recompute) is the sum
\* of the attuned items' weights.
C2_StatusChangeRecomputes ==
    (/\ call.kind = "status"
     /\ call.wasAttunable
     /\ isPlayerCharacter(actorType)
     /\ burdenFlag.t = "number"
     /\ pending = <<>>) => burdenFlag = AttunedWeightSum

\* C3: of two calls in succession with no change of any item's status or
\* weight between them, the first performs the one write and the second writes
\* nothing.
C3_SecondCallIsNoOp ==
    call.run = 2 => (call.prevWrote /\ ~call.wrote)

\* C4: a call issues the write (and logs old -> new) exactly when the sum it
\* computed differs from the burden it read; otherwise nothing is written and
\* the flag is left as read.
C4_ChangeGate ==
    call.ran =>
        /\ call.wrote <=> (call.new # call.old)
        /\ call.wrote =>
              /\ call.log = <<call.old, call.new>>
              /\ JustReturned => pending[Len(pending)] = call.new
        /\ ~call.wrote =>
              /\ call.log = <<>>
              /\ Len(pending) <= call.inflight
              /\ JustReturned => burdenFlag = call.old

\* A call found the stored burden equal to a positive sum and wrote nothing.
C4_Witness ==
    /\ call.ran /\ ~call.wrote /\ JustReturned
    /\ call.new = call.old
    /\ call.new.v > 0
    /\ burdenFlag = call.old

\* C5: getAttunementWeight always yields a non-negative integer: 1 when no
\* value is stored, max(0, floor(v)) for a stored v, and a defined number for
\* a stored value that is not a number.
C5_WeightIsNonNegativeInteger ==
    probe.done =>
        /\ probe.weight.t = "number"
        /\ probe.weight.v >= 0
        /\ probe.weight.v % Tenths = 0
        /\ probe.stored = Undefined => probe.weight = Num(DEFAULT_WEIGHT * Tenths)
        /\ probe.stored.t = "number" =>
              probe.weight = Num(IF probe.stored.v > 0
                                 THEN (probe.stored.v \div Tenths) * Tenths
                                 ELSE 0)

\* C6: no handler evaluates its change gate against a burden flag that a write
\* still in flight from an earlier handler is about to replace.
C6_NoStaleRead ==
    call.ran => ~call.stale

\* C7 as stated: an edit of an item's weight alone runs no recompute and
\* issues no write of the burden.
C7_WeightEditLeavesBurden ==
    call.kind = "weight" => (~call.ran /\ ~call.wrote)

\* C7 as amended: the event of a weight edit recomputes the burden whenever the
\* edited item is attunable and owned by a player character: the handler sums
\* the attuned items' weights, the edited one included, and issues a write when
\* the sum differs from the burden it read. Only for an item that is not
\* attunable does the edit run no recompute.
C7_WeightEditRecomputes ==
    call.kind = "weight" =>
        IF isPlayerCharacter(actorType)
           /\ status[call.item] \in {RequiresAttunement, Attuned}
        THEN /\ call.ran
             /\ call.new = AttunedWeightSum
             /\ call.wrote <=> (call.new # call.old)
        ELSE ~call.ran /\ ~call.wrote

\* The weight of an attuned item was edited and the handler wrote a new burden.
C7_Witness ==
    /\ call.kind = "weight"
    /\ status[call.item] = Attuned
    /\ call.ran /\ call.wrote
    /\ call.old.t = "number"
    /\ call.new = AttunedWeightSum

\* C8: rendering the character sheet only reads: no write is issued, the burden
\* flag and every item's weight flag and attunement stay as they are, and the
\* burden shown is the flag as stored, not a recomputed sum.
C8_RenderOnlyReads ==
    [][sheet'.rendered =>
          /\ UNCHANGED <<status, weightFlag, burdenFlag, pending>>
          /\ sheet'.burden = burdenFlag]_vars

\* A sheet shows a stored burden that is not the current sum.
C8_Witness ==
    /\ sheet.rendered
    /\ sheet.burden.t = "number"
    /\ sheet.burden # AttunedWeightSum
    /\ sheet.burden = burdenFlag

\* C9: getItem returns item data exactly for the ids of the actor's own items
\* that are attunable (RequiresAttunement or Attuned), and nothing for any other
\* id.
C9_GetItem ==
    sheet.rendered =>
        \A id \in sheet.asked :
            sheet.found[id] <=>
                (id \in ItemIds /\ status[id] \in {RequiresAttunement, Attuned})

\* One render looked up an attuned item, an item that is not attunable, and an
\* id the actor does not own.
C9_Witness ==
    /\ sheet.rendered
    /\ \E id \in sheet.asked : id \in ItemIds /\ status[id] = Attuned /\ sheet.found[id]
    /\ \E id \in sheet.asked : id \in ItemIds /\ status[id] = NotAttunable /\ ~sheet.found[id]
    /\ \E id \in sheet.asked : id \notin ItemIds /\ ~sheet.found[id]

\* C10: a handler issues at most one write; only handling an item update
\* issues one; applying a write changes the burden flag alone and raises no
\* item update; once item updates stop, no write stays in flight.
C10_NoFeedbackLoop ==
    /\ [][/\ Len(pending') <= Len(pending) + 1
          /\ changes' = changes => Len(pending') <= Len(pending)
          /\ Len(pending') < Len(pending) =>
                UNCHANGED <<status, weightFlag, changes, call>>]_vars
    /\ <>[](pending = <<>>)

\* Every item update was delivered, the last one wrote, and nothing is in flight.
C10_Witness ==
    /\ changes = MaxChanges
    /\ call.wrote
    /\ pending = <<>>
    /\ burdenFlag = AttunedWeightSum

====
